---- MODULE Spec2Model ----
(***************************************************************************)
(* KrishiMitra farm-assistant orchestration engine.                        *)
(*                                                                         *)
(* The model follows backend/home/agents/farm_orchestrator.py (the         *)
(* LangGraph pipeline of FarmOrchestratorAgent and its keep-alive timer)   *)
(* and backend/home/views.py (SSEProgressTracker, the worker thread of     *)
(* sse_query_farm_agents and the stream() generator that consumes the      *)
(* tracker's queue).                                                       *)
(*                                                                         *)
(* Confidence scores are floats in the program; here they are integers in  *)
(* hundredths (0.6 is 60), with one extra value for float('nan').          *)
(***************************************************************************)
EXTENDS Integers, Sequences, FiniteSets, TLC

\* ------------------------------------------------------------------------
\* Bounds of the model
\* ------------------------------------------------------------------------
MaxPlanLen == 2        \* longest agents_needed list the classifier returns
MaxTimers == 2         \* threading.Timer objects created in one behaviour
                       \* (unfinished at a time where places are reused)
MaxCalls == 2          \* process_query calls on one orchestrator
MaxQueue == 3          \* events waiting in the queue beyond which the clock
                       \* of the timed specifications stops

\* ------------------------------------------------------------------------
\* Program constants
\* ------------------------------------------------------------------------
AgentNames == {"market", "satellite", "weather", "pest", "soil", "search"}

ConfidenceThreshold == 60      \* 0.6
DefaultVerifierScore == 70     \* 0.7
FallbackConfidence == 50       \* 0.5
DefaultClassifierConfidence == 50
NaN == 0 - 999                 \* float('nan')

HeartbeatInterval == 5         \* seconds, threading.Timer(5.0, ...)
JoinTimeout == 5               \* processing_thread.join(timeout=5)
InactivityWindow == 60         \* seconds, the watchdog of get_messages

FallbackAgents == <<"weather", "soil">>

ApologyResponse == "I apologize, but I couldn't gather the necessary information"
ErrorResponse == "I encountered an error processing your request. Please try again."

\* ------------------------------------------------------------------------
\* Float helpers, computed as Python computes them (every comparison with
\* NaN is false)
\* ------------------------------------------------------------------------
FloatLt(a, b) == a # NaN /\ b # NaN /\ a < b

PyMax(a, b) == IF FloatLt(a, b) THEN b ELSE a

PyMin(a, b) == IF FloatLt(b, a) THEN b ELSE a

ClampScore(c) == PyMin(PyMax(c, 0), 100)

\* ------------------------------------------------------------------------
\* Inputs of the environment
\* ------------------------------------------------------------------------
PlanNames == {"market", "pest", "drone"}

Plans == UNION {[1..n -> PlanNames] : n \in 0..MaxPlanLen}

ClassifierConfidences == {150}

\* a plan of two known agents
TwoAgentPlan == <<"weather", "soil">>

\* what self.model.generate_content(prompt) gives classify_intent
ClassifierOutputs ==
    {[kind |-> k, agents_needed |-> <<>>, hasConf |-> FALSE, conf |-> 0] :
        k \in {"raise", "nonjson", "badshape"}}
    \cup {[kind |-> "json", agents_needed |-> p, hasConf |-> FALSE, conf |-> 0] :
        p \in Plans}
    \cup {[kind |-> "json", agents_needed |-> p, hasConf |-> TRUE, conf |-> c] :
        p \in Plans, c \in ClassifierConfidences}
    \cup {[kind |-> "json", agents_needed |-> TwoAgentPlan, hasConf |-> FALSE,
           conf |-> 0]}

\* what one call of run_<agent>_agent meets
AgentOutcomes == {"ok", "error_result", "raise"}

\* what self.model.generate_content(prompt) gives make_decision
DecisionOutputs == {"raise", "answer"}

\* what self.model.generate_content(prompt) gives verify_response
VerifierOutputs ==
    {[kind |-> "raise", value |-> 0], [kind |-> "text", value |-> 0]}
    \cup {[kind |-> "number", value |-> v] : v \in {0 - 20, 59, 60, 150, NaN}}

NotificationOutcomes == {"ok", "raise"}

SaveOutcomes == {"no_user_id", "no_such_user", "saved", "db_error"}

\* ------------------------------------------------------------------------
\* State
\* ------------------------------------------------------------------------
VARIABLES
    caller,             \* "direct" (run_safe_tests) or "sse" (views worker)
    pc,                 \* position of the thread that runs process_query
    state,              \* AgentState
    rma,                \* locals of run_multiple_agents: index i, agent_responses
    raising,            \* an exception is propagating out of graph.invoke
    keep_alive_active,  \* FarmOrchestratorAgent.keep_alive_active
    keep_alive_timer,   \* FarmOrchestratorAgent.keep_alive_timer (0 is None)
    timers,             \* the threading.Timer objects and their threads
    is_active,          \* SSEProgressTracker.is_active
    message_queue,      \* SSEProgressTracker.message_queue
    result_container,   \* views.py result_container
    hist,               \* what happened so far in the run (observation only)
    idle,               \* time.time() - SSEProgressTracker.last_activity, in
                        \* seconds; every value above the window is one value
    quiet,              \* seconds since the progress callback was last called
                        \* or the run started (observation only)
    age,                \* seconds each pending Timer has been waiting
    consumer            \* the stream() generator that iterates get_messages

orchVars == <<keep_alive_active, keep_alive_timer, timers>>
busVars == <<is_active, message_queue>>
clockVars == <<idle, quiet, age>>
vars == <<caller, pc, state, rma, raising, keep_alive_active, keep_alive_timer,
          timers, is_active, message_queue, result_container, hist,
          idle, quiet, age, consumer>>


\* ------------------------------------------------------------------------
\* Progress events and the sink
\* ------------------------------------------------------------------------
\* one progress event: its event_type, the agent it is about ("" if none)
\* and the two numbers its message shows as "a/b" (none for most events)
Event(kind, agent) == [event |-> kind, agent |-> agent, info |-> <<>>]

CountedEvent(kind, agent, a, b) ==
    [event |-> kind, agent |-> agent, info |-> <<a, b>>]

\* SSEProgressTracker.add_message for a list of events put by one thread
\* without another thread running in between
add_message(active, queue, evs) == IF active THEN queue \o evs ELSE queue

\* FarmOrchestratorAgent._send_progress: nothing happens without a callback
send_progress(who, active, queue, evs) ==
    IF who = "sse" THEN add_message(active, queue, evs) ELSE queue

\* Queue(): "If maxsize is <= 0, the queue size is infinite"
QueueMaxsize == 0

\* a queue made with Queue(maxsize=1)
put_blocks_Bounded(queue) == Len(queue) >= 1

\* Queue.put(item) waits while the queue is full
put_blocks(queue) == QueueMaxsize > 0 /\ Len(queue) >= QueueMaxsize

\* what a call of the progress callback needs and what it does to the
\* clocks: add_message sets last_activity to the current time and puts the
\* message when the tracker is active
Activity ==
    /\ (caller = "sse" /\ is_active) => ~put_blocks(message_queue)
    /\ idle' = IF caller = "sse" /\ is_active THEN 0 ELSE idle
    /\ quiet' = IF caller = "sse" THEN 0 ELSE quiet

\* ------------------------------------------------------------------------
\* AgentResult values and the result map
\* ------------------------------------------------------------------------
Success == [isError |-> FALSE, error |-> ""]

Failure(msg) == [isError |-> TRUE, error |-> msg]

EmptyResponses == [n \in {} |-> Success]

\* d[k] = v on a Python dict
DictSet(d, k, v) == [n \in DOMAIN d \cup {k} |-> IF n = k THEN v ELSE d[n]]

InitialState ==
    [intent_classification |-> "",
     confidence_score |-> 0,
     agent_responses |-> EmptyResponses,
     final_response |-> "",
     require_human_feedback |-> FALSE,
     agents_to_run |-> <<>>]

\* ------------------------------------------------------------------------
\* The graph of _build_graph
\* ------------------------------------------------------------------------
SingleAgentNodes == {"market_agent", "satellite_agent", "weather_agent",
                     "pest_agent", "soil_agent", "search_agent"}

\* a graph whose "multiple" edge goes to the decision node
RouteNode_SkipsFanOut(key) ==
    CASE key = "market" -> "market_agent"
      [] key = "satellite" -> "satellite_agent"
      [] key = "weather" -> "weather_agent"
      [] key = "pest" -> "pest_agent"
      [] key = "soil" -> "soil_agent"
      [] key = "search" -> "search_agent"
      [] key = "multiple" -> "decision_llm"

\* the mapping of the conditional edges out of classify_intent
RouteNode(key) ==
    CASE key = "market" -> "market_agent"
      [] key = "satellite" -> "satellite_agent"
      [] key = "weather" -> "weather_agent"
      [] key = "pest" -> "pest_agent"
      [] key = "soil" -> "soil_agent"
      [] key = "search" -> "search_agent"
      [] key = "multiple" -> "run_multiple_agents"

\* the agent a single-agent node runs
NodeAgent(node) == CHOOSE a \in AgentNames : RouteNode(a) = node

\* a graph whose "sufficient" edge goes to END
ConfidenceNode_SkipsNotification(key) == "END"

\* the mapping of the conditional edges out of check_confidence
ConfidenceNode(key) ==
    CASE key = "sufficient" -> "notification_agent"
      [] key = "insufficient" -> "END"

\* a router that sends every other label to the weather node
route_to_agents_DefaultsToWeather(st) ==
    IF st.intent_classification \in AgentNames
        THEN st.intent_classification
        ELSE "weather"

route_to_agents(st) ==
    IF st.intent_classification \in AgentNames
        THEN st.intent_classification
        ELSE "multiple"

confidence_check(st) ==
    IF st.require_human_feedback THEN "insufficient" ELSE "sufficient"

\* ------------------------------------------------------------------------
\* Stages as functions of the state and of what the environment returned
\* ------------------------------------------------------------------------
\* classify_intent whose handler leaves the confidence of the initial state
classify_intent_KeepsConfidence(st, out) ==
    IF out.kind = "json"
        THEN [st EXCEPT
                !.intent_classification =
                    IF Len(out.agents_needed) = 1
                        THEN out.agents_needed[1]
                        ELSE "multiple",
                !.agents_to_run = out.agents_needed,
                !.confidence_score =
                    IF out.hasConf THEN out.conf ELSE DefaultClassifierConfidence,
                !.agent_responses = EmptyResponses]
        ELSE [st EXCEPT
                !.intent_classification = "multiple",
                !.agents_to_run = FallbackAgents,
                !.agent_responses = EmptyResponses]

\* classify_intent: the new state
classify_intent(st, out) ==
    IF out.kind = "json"
        THEN [st EXCEPT
                !.intent_classification =
                    IF Len(out.agents_needed) = 1
                        THEN out.agents_needed[1]
                        ELSE "multiple",
                !.agents_to_run = out.agents_needed,
                !.confidence_score =
                    IF out.hasConf THEN out.conf ELSE DefaultClassifierConfidence,
                !.agent_responses = EmptyResponses]
        ELSE [st EXCEPT
                !.intent_classification = "multiple",
                !.agents_to_run = FallbackAgents,
                !.confidence_score = FallbackConfidence,
                !.agent_responses = EmptyResponses]

classify_events(out) ==
    IF out.kind = "json"
        THEN <<Event("agent_start", ""), Event("intent_classified", "")>>
        ELSE <<Event("agent_start", ""), Event("warning", "")>>

\* a gateway that stores what it has although the agent raised
GatewayResult_SwallowsRaise(outcome) ==
    CASE outcome = "ok" -> Success
      [] outcome = "error_result" -> Failure("Farm ID required")
      [] outcome = "raise" -> Success

\* run_<agent>_agent: the AgentResult stored under the agent's name. An
\* "error_result" is what <Agent>.process returns from its own handler; a
\* "raise" is an exception inside the try block of run_<agent>_agent.
\* The events "<agent>_agent_start" and so on are written x_agent_start
\* with the agent's name next to them.
GatewayResult(outcome) ==
    CASE outcome = "ok" -> Success
      [] outcome = "error_result" -> Failure("Farm ID required")
      [] outcome = "raise" -> Failure("agent failed: error")

\* a gateway whose handler does not store an entry
run_agent_DropsRaise(st, name, outcome) ==
    IF outcome = "raise"
        THEN st
        ELSE [st EXCEPT !.agent_responses =
                DictSet(@, name, GatewayResult(outcome))]

run_agent(st, name, outcome) ==
    [st EXCEPT !.agent_responses = DictSet(@, name, GatewayResult(outcome))]

run_agent_events(name, outcome) ==
    IF outcome = "raise"
        THEN <<Event("x_agent_start", name), Event("x_agent_error", name)>>
        ELSE <<Event("x_agent_start", name), Event("x_agent_complete", name)>>

\* make_decision without the test of the empty result map
decision_calls_oracle_Always(st) == TRUE

\* make_decision: "if not responses" returns before the oracle is called
decision_calls_oracle(st) == DOMAIN st.agent_responses # {}

\* a prompt that leaves the failed agents out
decision_prompt_SuccessesOnly(st) ==
    [n \in {m \in DOMAIN st.agent_responses :
                ~st.agent_responses[m].isError} |-> st.agent_responses[n]]

\* make_decision: the agent results its prompt shows,
\* json.dumps(responses, indent=2)
decision_prompt(st) == st.agent_responses

make_decision(st, out) ==
    IF ~decision_calls_oracle(st)
        THEN [st EXCEPT !.final_response = ApologyResponse]
        ELSE IF out = "raise"
            THEN [st EXCEPT !.final_response = ErrorResponse]
            ELSE [st EXCEPT !.final_response = out]

make_decision_events(st, out) ==
    IF ~decision_calls_oracle(st)
        THEN <<Event("decision_start", ""), Event("warning", "")>>
        ELSE IF out = "raise"
            THEN <<Event("decision_start", ""), Event("decision_error", "")>>
            ELSE <<Event("decision_start", ""), Event("decision_complete", "")>>

\* verify_response whose handler uses the classifier's default
verify_response_LowDefault(st, out) ==
    IF out.kind = "number"
        THEN [st EXCEPT !.confidence_score = ClampScore(out.value)]
        ELSE [st EXCEPT !.confidence_score = FallbackConfidence]

\* verify_response
verify_response(st, out) ==
    IF out.kind = "number"
        THEN [st EXCEPT !.confidence_score = ClampScore(out.value)]
        ELSE [st EXCEPT !.confidence_score = DefaultVerifierScore]

verify_events(out) ==
    IF out.kind = "number"
        THEN <<Event("verifier_start", ""), Event("verifier_complete", "")>>
        ELSE <<Event("verifier_start", ""), Event("warning", "")>>

\* check_confidence with <= in place of <
check_confidence_Inclusive(st) ==
    [st EXCEPT !.require_human_feedback =
        ~FloatLt(ConfidenceThreshold, st.confidence_score)]

\* check_confidence
check_confidence(st) ==
    [st EXCEPT !.require_human_feedback =
        FloatLt(st.confidence_score, ConfidenceThreshold)]


\* ------------------------------------------------------------------------
\* Initial state: the orchestrator has been constructed, process_query has
\* not been called yet
\* ------------------------------------------------------------------------
NoTimer == [st |-> "unborn", cancelled |-> FALSE]

\* stream() is about to iterate progress_tracker.get_messages(); msg is the
\* event it was handed last, how is the way the iteration ended
\* wait counts the seconds of processing_thread.join, sent is what stream()
\* sends after its loop
NoConsumer ==
    [pc |-> "polling", msg |-> Event("", ""), how |-> "", wait |-> 0,
     sent |-> <<>>]

InitialHist ==
    [invoked |-> <<>>,            \* agents whose run_<agent>_agent was called
     outcomes |-> <<>>,           \* what each of these invocations met
     classifierOk |-> TRUE,       \* classify_intent took its try branch
     verifierOk |-> TRUE,         \* verify_response took its try branch
     decisionOracleCalls |-> 0,   \* generate_content calls of make_decision
     decisionArg |-> EmptyResponses,  \* the results in the prompt of the last
     decisionOk |-> TRUE,         \* make_decision took its try branch
     notifyCalls |-> 0,           \* process_notifications calls
     notifyArg |-> "",            \* the response text handed to it
     notifyRaised |-> FALSE,
     saveCalls |-> 0,             \* _save_query_safely calls
     saveOutcome |-> "",          \* what _save_query_safely met
     saved |-> 0,                 \* AgentQuery rows written
     cancelCalls |-> 0,           \* Timer.cancel calls
     stopReturned |-> FALSE,      \* _stop_keep_alive has returned
     kaAfterStop |-> FALSE,
     calls |-> 0,                 \* process_query calls after the first
     terminalAdmitted |-> 0]      \* processing_complete / processing_error
                                  \* events the tracker admitted       \* keep_alive handed to the sink after that

InitCommon ==
    /\ pc = "idle"
    /\ state = InitialState
    /\ rma = [i |-> 0, agent_responses |-> EmptyResponses]
    /\ raising = FALSE
    /\ keep_alive_active = FALSE
    /\ keep_alive_timer = 0
    /\ timers = [t \in 1..MaxTimers |-> NoTimer]
    /\ is_active = TRUE
    /\ message_queue = <<>>
    /\ result_container = [result |-> FALSE, error |-> FALSE]
    /\ hist = InitialHist
    /\ idle = 0
    /\ quiet = 0
    /\ age = [t \in 1..MaxTimers |-> 0]
    /\ consumer = NoConsumer

\* run_safe_tests: orchestrator.process_query(query, test_context)
Init == caller = "direct" /\ InitCommon

\* sse_query_farm_agents: the worker thread with the tracker's callback
InitSSE == caller = "sse" /\ InitCommon

\* ------------------------------------------------------------------------
\* The thread that runs process_query
\* ------------------------------------------------------------------------
\* process_query up to graph.invoke, with _start_keep_alive and the first
\* _schedule_keep_alive
StartQuery ==
    /\ pc = "idle"
    /\ keep_alive_active' = TRUE
    /\ timers' = [timers EXCEPT ![1] = [st |-> "armed", cancelled |-> FALSE]]
    /\ keep_alive_timer' = 1
    /\ state' = InitialState
    /\ pc' = "classify_intent"
    /\ quiet' = 0
    /\ UNCHANGED <<idle, age, consumer, caller, rma, raising, busVars, result_container, hist>>

\* node classify_intent and the conditional edge route_to_agents
ClassifyIntent(outputs) ==
    /\ pc = "classify_intent"
    /\ \E out \in outputs :
        /\ state' = classify_intent(state, out)
        /\ message_queue' =
            send_progress(caller, is_active, message_queue, classify_events(out))
        /\ hist' = [hist EXCEPT !.classifierOk = (out.kind = "json")]
    /\ pc' = RouteNode(route_to_agents(state'))
    /\ Activity
    /\ UNCHANGED <<age, consumer, caller, rma, raising, orchVars, is_active, result_container>>

\* a single-agent node that gives up once the tracker has been stopped
RunSingleAgent_Cancellable(outcomes) ==
    /\ pc \in SingleAgentNodes
    /\ is_active
    /\ \E oc \in outcomes :
        LET name == NodeAgent(pc) IN
        /\ state' = run_agent(state, name, oc)
        /\ message_queue' =
            send_progress(caller, is_active, message_queue,
                          run_agent_events(name, oc))
        /\ hist' = [hist EXCEPT
                !.invoked = Append(@, name),
                !.outcomes = Append(@, oc)]
    /\ pc' = "decision_llm"
    /\ Activity
    /\ UNCHANGED <<age, consumer, caller, rma, raising, orchVars, is_active, result_container>>

\* one of the six single-agent nodes
RunSingleAgent(outcomes) ==
    /\ pc \in SingleAgentNodes
    /\ \E oc \in outcomes :
        LET name == NodeAgent(pc) IN
        /\ state' = run_agent(state, name, oc)
        /\ message_queue' =
            send_progress(caller, is_active, message_queue,
                          run_agent_events(name, oc))
        /\ hist' = [hist EXCEPT
                !.invoked = Append(@, name),
                !.outcomes = Append(@, oc)]
    /\ pc' = "decision_llm"
    /\ Activity
    /\ UNCHANGED <<age, consumer, caller, rma, raising, orchVars, is_active, result_container>>

\* run_multiple_agents up to its loop
RunMultipleBegin ==
    /\ pc = "run_multiple_agents"
    /\ rma' = [i |-> 1, agent_responses |-> EmptyResponses]
    /\ message_queue' =
        send_progress(caller, is_active, message_queue,
                      <<Event("multiple_agents_start", "")>>)
    /\ pc' = "rma_loop"
    /\ Activity
    /\ UNCHANGED <<age, consumer, caller, state, raising, orchVars, is_active,
                   result_container, hist>>

\* a runner that announces the agent after it has called it
runner_events_AnnouncesLate(name, i, n, oc, stored) ==
    run_agent_events(name, oc)
    \o <<CountedEvent("agent_running", name, i, n)>>
    \o (IF stored THEN <<Event("agent_complete", name)>>
                  ELSE <<Event("agent_warning", name)>>)

\* the events of one iteration of run_multiple_agents for a known name, the
\* i-th of the n names of agents_to_run
runner_events(name, i, n, oc, stored) ==
    <<CountedEvent("agent_running", name, i, n)>>
    \o run_agent_events(name, oc)
    \o (IF stored THEN <<Event("agent_complete", name)>>
                  ELSE <<Event("agent_warning", name)>>)

\* one iteration of the loop of run_multiple_agents. temp_state is a shallow
\* copy of state, so the agent writes into the dict state["agent_responses"]
\* as well.
RunMultipleStep(outcomes) ==
    /\ pc = "rma_loop"
    /\ rma.i <= Len(state.agents_to_run)
    /\ LET name == state.agents_to_run[rma.i] IN
        IF name \in AgentNames
        THEN \E oc \in outcomes :
            LET temp_state == run_agent(state, name, oc) IN
            /\ state' = temp_state
            /\ rma' = [i |-> rma.i + 1,
                       agent_responses |->
                         IF name \in DOMAIN temp_state.agent_responses
                            THEN DictSet(rma.agent_responses, name,
                                         temp_state.agent_responses[name])
                            ELSE rma.agent_responses]
            /\ message_queue' =
                send_progress(caller, is_active, message_queue,
                    runner_events(name, rma.i, Len(state.agents_to_run), oc,
                                  name \in DOMAIN temp_state.agent_responses))
            /\ hist' = [hist EXCEPT
                    !.invoked = Append(@, name),
                    !.outcomes = Append(@, oc)]
        ELSE
            /\ rma' = [rma EXCEPT !.i = @ + 1]
            /\ message_queue' =
                send_progress(caller, is_active, message_queue,
                              <<Event("warning", name)>>)
            /\ UNCHANGED <<state, hist>>
    /\ Activity
    /\ UNCHANGED <<age, consumer, caller, pc, raising, orchVars, is_active, result_container>>

\* run_multiple_agents: the entries without an "error" field
success_count(responses) ==
    Cardinality({n \in DOMAIN responses : ~responses[n].isError})

\* run_multiple_agents after its loop
RunMultipleEnd ==
    /\ pc = "rma_loop"
    /\ rma.i > Len(state.agents_to_run)
    /\ state' = [state EXCEPT !.agent_responses = rma.agent_responses]
    /\ message_queue' =
        send_progress(caller, is_active, message_queue,
            <<CountedEvent("multiple_agents_complete", "",
                           success_count(rma.agent_responses),
                           Cardinality(DOMAIN rma.agent_responses))>>)
    /\ pc' = "decision_llm"
    /\ Activity
    /\ UNCHANGED <<age, consumer, caller, rma, raising, orchVars, is_active,
                   result_container, hist>>

\* node decision_llm
MakeDecision(outputs) ==
    /\ pc = "decision_llm"
    /\ \E out \in outputs :
        /\ state' = make_decision(state, out)
        /\ message_queue' =
            send_progress(caller, is_active, message_queue,
                          make_decision_events(state, out))
        /\ hist' = [hist EXCEPT
                !.decisionOracleCalls =
                    IF decision_calls_oracle(state) THEN @ + 1 ELSE @,
                !.decisionArg =
                    IF decision_calls_oracle(state)
                        THEN decision_prompt(state) ELSE @,
                !.decisionOk =
                    ~(decision_calls_oracle(state) /\ out = "raise")]
    /\ pc' = "verifier_agent"
    /\ Activity
    /\ UNCHANGED <<age, consumer, caller, rma, raising, orchVars, is_active, result_container>>

\* verifier_agent without its try block: the oracle's exception leaves
\* graph.invoke
VerifyResponse_NoTry(outputs) ==
    /\ pc = "verifier_agent"
    /\ \E out \in outputs :
        /\ state' = IF out.kind = "raise" THEN state
                                           ELSE verify_response(state, out)
        /\ raising' = (out.kind = "raise")
        /\ pc' = IF out.kind = "raise" THEN "stop_flag" ELSE "check_confidence"
        /\ message_queue' =
            send_progress(caller, is_active, message_queue, verify_events(out))
        /\ hist' = [hist EXCEPT !.verifierOk = (out.kind = "number")]
    /\ Activity
    /\ UNCHANGED <<age, consumer, caller, rma, orchVars, is_active, result_container>>

\* node verifier_agent
VerifyResponse(outputs) ==
    /\ pc = "verifier_agent"
    /\ \E out \in outputs :
        /\ state' = verify_response(state, out)
        /\ message_queue' =
            send_progress(caller, is_active, message_queue, verify_events(out))
        /\ hist' = [hist EXCEPT !.verifierOk = (out.kind = "number")]
    /\ pc' = "check_confidence"
    /\ Activity
    /\ UNCHANGED <<age, consumer, caller, rma, raising, orchVars, is_active, result_container>>

\* node check_confidence and the conditional edge confidence_check
CheckConfidence ==
    /\ pc = "check_confidence"
    /\ state' = check_confidence(state)
    /\ pc' = ConfidenceNode(confidence_check(state'))
    /\ UNCHANGED <<idle, quiet, age, consumer, caller, rma, raising, orchVars, busVars, result_container,
                   hist>>

\* notification_agent without its try block: the notifier's exception
\* leaves graph.invoke
SendNotifications_NoTry(outcomes) ==
    /\ pc = "notification_agent"
    /\ \E oc \in outcomes :
        /\ message_queue' =
            send_progress(caller, is_active, message_queue,
                IF oc = "raise"
                    THEN <<Event("notification_start", "")>>
                    ELSE <<Event("notification_start", ""),
                           Event("notification_complete", "")>>)
        /\ hist' = [hist EXCEPT !.notifyCalls = @ + 1,
                                !.notifyArg = state.final_response,
                                !.notifyRaised = (oc = "raise")]
        /\ raising' = (oc = "raise")
        /\ pc' = IF oc = "raise" THEN "stop_flag" ELSE "END"
    /\ Activity
    /\ UNCHANGED <<age, consumer, caller, state, rma, orchVars, is_active,
                   result_container>>

\* node notification_agent
SendNotifications(outcomes) ==
    /\ pc = "notification_agent"
    /\ \E oc \in outcomes :
        /\ message_queue' =
            send_progress(caller, is_active, message_queue,
                IF oc = "raise"
                    THEN <<Event("notification_start", ""), Event("warning", "")>>
                    ELSE <<Event("notification_start", ""),
                           Event("notification_complete", "")>>)
        /\ hist' = [hist EXCEPT !.notifyCalls = @ + 1,
                                !.notifyArg = state.final_response,
                                !.notifyRaised = (oc = "raise")]
    /\ pc' = "END"
    /\ Activity
    /\ UNCHANGED <<age, consumer, caller, state, rma, raising, orchVars, is_active,
                   result_container>>

\* _save_query_safely without its try block: the fault of the store leaves
\* process_query
SaveQuery_Reraises(outcomes) ==
    /\ pc = "END"
    /\ \E oc \in outcomes :
        /\ hist' = [hist EXCEPT !.saveCalls = @ + 1,
                                !.saveOutcome = oc,
                                !.saved = IF oc = "saved" THEN @ + 1 ELSE @]
        /\ raising' = (oc = "db_error")
    /\ pc' = "stop_flag"
    /\ UNCHANGED <<idle, quiet, age, consumer, caller, state, rma, orchVars, busVars,
                   result_container>>

\* graph.invoke returns; _save_query_safely
SaveQuery(outcomes) ==
    /\ pc = "END"
    /\ \E oc \in outcomes :
        hist' = [hist EXCEPT !.saveCalls = @ + 1,
                             !.saveOutcome = oc,
                             !.saved = IF oc = "saved" THEN @ + 1 ELSE @]
    /\ pc' = "stop_flag"
    /\ UNCHANGED <<idle, quiet, age, consumer, caller, state, rma, raising, orchVars, busVars,
                   result_container>>


\* an exception leaves graph.invoke at a node boundary (the finally block of
\* process_query is entered with the exception pending)
PipelineRaise ==
    /\ pc \in {"classify_intent", "run_multiple_agents", "rma_loop",
               "decision_llm", "verifier_agent", "check_confidence",
               "notification_agent"} \cup SingleAgentNodes
    /\ raising' = TRUE
    /\ pc' = "stop_flag"
    /\ UNCHANGED <<idle, quiet, age, consumer, caller, state, rma, orchVars, busVars, result_container,
                   hist>>

\* _stop_keep_alive: self.keep_alive_active = False
StopFlag ==
    /\ pc = "stop_flag"
    /\ keep_alive_active' = FALSE
    /\ pc' = "stop_test"
    /\ UNCHANGED <<idle, quiet, age, consumer, caller, state, rma, raising, keep_alive_timer, timers,
                   busVars, result_container, hist>>

\* the thread that called process_query goes on after _stop_keep_alive
AfterStop ==
    IF caller = "sse"
        THEN IF raising THEN "worker_except" ELSE "worker_result"
        ELSE IF raising THEN "raised" ELSE "returned"

\* _stop_keep_alive: if self.keep_alive_timer:
StopTest ==
    /\ pc = "stop_test"
    /\ IF keep_alive_timer # 0
        THEN pc' = "stop_cancel" /\ hist' = hist
        ELSE pc' = AfterStop /\ hist' = [hist EXCEPT !.stopReturned = TRUE]
    /\ UNCHANGED <<idle, quiet, age, consumer, caller, state, rma, raising, orchVars, busVars,
                   result_container>>

\* _stop_keep_alive: self.keep_alive_timer.cancel()
StopCancel ==
    /\ pc = "stop_cancel"
    /\ timers' = [timers EXCEPT ![keep_alive_timer].cancelled = TRUE]
    /\ hist' = [hist EXCEPT !.cancelCalls = @ + 1]
    /\ pc' = "stop_clear"
    /\ UNCHANGED <<idle, quiet, age, consumer, caller, state, rma, raising, keep_alive_active,
                   keep_alive_timer, busVars, result_container>>

\* _stop_keep_alive: self.keep_alive_timer = None, and the return
StopClear ==
    /\ pc = "stop_clear"
    /\ keep_alive_timer' = 0
    /\ hist' = [hist EXCEPT !.stopReturned = TRUE]
    /\ pc' = AfterStop
    /\ UNCHANGED <<idle, quiet, age, consumer, caller, state, rma, raising, keep_alive_active, timers,
                   busVars, result_container>>

\* a worker that announces the end of the run and does not store the result
WorkerResult_ForgetsResult ==
    /\ pc = "worker_result"
    /\ message_queue' =
        add_message(is_active, message_queue,
                    <<Event("processing_complete", "")>>)
    /\ hist' = [hist EXCEPT !.terminalAdmitted =
            IF is_active THEN @ + 1 ELSE @]
    /\ pc' = "worker_finally"
    /\ Activity
    /\ UNCHANGED <<age, consumer, caller, state, rma, raising, orchVars, is_active,
                   result_container>>

\* views.py worker: result_container["result"] = result and the
\* processing_complete message
WorkerResult ==
    /\ pc = "worker_result"
    /\ result_container' = [result_container EXCEPT !.result = TRUE]
    /\ message_queue' =
        add_message(is_active, message_queue,
                    <<Event("processing_complete", "")>>)
    /\ hist' = [hist EXCEPT !.terminalAdmitted =
            IF is_active THEN @ + 1 ELSE @]
    /\ pc' = "worker_finally"
    /\ Activity
    /\ UNCHANGED <<age, consumer, caller, state, rma, raising, orchVars, is_active>>

\* views.py worker: the except branch
WorkerExcept ==
    /\ pc = "worker_except"
    /\ result_container' = [result_container EXCEPT !.error = TRUE]
    /\ message_queue' =
        add_message(is_active, message_queue,
                    <<Event("processing_error", "")>>)
    /\ hist' = [hist EXCEPT !.terminalAdmitted =
            IF is_active THEN @ + 1 ELSE @]
    /\ pc' = "worker_finally"
    /\ Activity
    /\ UNCHANGED <<age, consumer, caller, state, rma, raising, orchVars, is_active>>

\* views.py worker: finally: progress_tracker.stop()
WorkerFinally ==
    /\ pc = "worker_finally"
    /\ is_active' = FALSE
    /\ pc' = "worker_done"
    /\ UNCHANGED <<idle, quiet, age, consumer, caller, state, rma, raising, orchVars, message_queue,
                   result_container, hist>>

\* ------------------------------------------------------------------------
\* The timer threads: threading.Timer(5.0, send_keep_alive)
\* ------------------------------------------------------------------------
\* Timer.run: the interval is over and cancel() has not been called
TimerFire(t) ==
    /\ timers[t].st = "armed"
    /\ ~timers[t].cancelled
    /\ timers' = [timers EXCEPT ![t].st = "cb_test"]
    /\ age' = [age EXCEPT ![t] = 0]
    /\ UNCHANGED <<idle, quiet, consumer, caller, pc, state, rma, raising, keep_alive_active,
                   keep_alive_timer, busVars, result_container, hist>>

\* send_keep_alive: if self.keep_alive_active:
KeepAliveTest(t) ==
    /\ timers[t].st = "cb_test"
    /\ timers' = [timers EXCEPT ![t].st =
            IF keep_alive_active THEN "cb_send" ELSE "done"]
    /\ UNCHANGED <<idle, quiet, age, consumer, caller, pc, state, rma, raising, keep_alive_active,
                   keep_alive_timer, busVars, result_container, hist>>

\* send_keep_alive: self._send_progress("Processing...", "keep_alive")
KeepAliveSend(t) ==
    /\ timers[t].st = "cb_send"
    /\ message_queue' =
        send_progress(caller, is_active, message_queue,
                      <<Event("keep_alive", "")>>)
    /\ hist' = [hist EXCEPT !.kaAfterStop =
            @ \/ (caller = "sse" /\ hist.stopReturned)]
    /\ timers' = [timers EXCEPT ![t].st = "sch_test"]
    /\ Activity
    /\ UNCHANGED <<age, consumer, caller, pc, state, rma, raising, keep_alive_active,
                   keep_alive_timer, is_active, result_container>>

\* send_keep_alive in two steps, as the timer thread takes them. First
\* add_message: "if self.is_active:"
KeepAliveCheck(t) ==
    /\ timers[t].st = "cb_send"
    /\ timers' = [timers EXCEPT ![t].st =
            IF caller = "sse" /\ is_active THEN "cb_put" ELSE "sch_test"]
    /\ hist' = [hist EXCEPT !.kaAfterStop =
            @ \/ (caller = "sse" /\ hist.stopReturned)]
    /\ quiet' = IF caller = "sse" THEN 0 ELSE quiet
    /\ UNCHANGED <<idle, age, consumer, caller, pc, state, rma, raising,
                   keep_alive_active, keep_alive_timer, busVars,
                   result_container>>

\* then add_message: self.last_activity = time.time() and
\* self.message_queue.put(...)
KeepAlivePut(t) ==
    /\ timers[t].st = "cb_put"
    /\ ~put_blocks(message_queue)
    /\ message_queue' = Append(message_queue, Event("keep_alive", ""))
    /\ timers' = [timers EXCEPT ![t].st = "sch_test"]
    /\ idle' = 0
    /\ UNCHANGED <<quiet, age, consumer, caller, pc, state, rma, raising,
                   keep_alive_active, keep_alive_timer, is_active,
                   result_container, hist>>

\* _schedule_keep_alive: if not self.keep_alive_active: return
ScheduleTest(t) ==
    /\ timers[t].st = "sch_test"
    /\ timers' = [timers EXCEPT ![t].st =
            IF keep_alive_active THEN "sch_new" ELSE "done"]
    /\ UNCHANGED <<idle, quiet, age, consumer, caller, pc, state, rma, raising, keep_alive_active,
                   keep_alive_timer, busVars, result_container, hist>>

\* the Timer objects not created yet
Unborn == {n \in 1..MaxTimers : timers[n].st = "unborn"}

\* the Timer objects that have finished and that nothing refers to
Finished ==
    {n \in 1..MaxTimers : timers[n].st = "done" /\ keep_alive_timer # n}

\* _schedule_keep_alive: self.keep_alive_timer = threading.Timer(...), the
\* new object taking one of the given places
ScheduleNewIn(t, slots) ==
    /\ timers[t].st = "sch_new"
    /\ slots # {}
    /\ LET n == CHOOSE m \in slots : \A k \in slots : m <= k IN
        /\ timers' = [timers EXCEPT
                ![n] = [st |-> "created", cancelled |-> FALSE],
                ![t].st = "sch_start"]
        /\ keep_alive_timer' = n
    /\ UNCHANGED <<idle, quiet, age, consumer, caller, pc, state, rma, raising, keep_alive_active,
                   busVars, result_container, hist>>

\* at most MaxTimers Timer objects are created
ScheduleNew(t) == ScheduleNewIn(t, Unborn)

\* any number of Timer objects are created, at most MaxTimers of them are
\* unfinished or referred to at once
ScheduleNewReuse(t) == ScheduleNewIn(t, Unborn \cup Finished)

\* a heartbeat that creates the next Timer and does not start it
ScheduleStart_NoStart(t) ==
    /\ timers[t].st = "sch_start"
    /\ timers' = [timers EXCEPT ![t].st = "done"]
    /\ UNCHANGED <<idle, quiet, age, consumer, caller, pc, state, rma,
                   raising, keep_alive_active, keep_alive_timer, busVars,
                   result_container, hist>>

\* _schedule_keep_alive: self.keep_alive_timer.start(). The attribute is
\* read again: it is None after _stop_keep_alive (AttributeError ends the
\* thread), and start() of a started Timer raises RuntimeError.
ScheduleStart(t) ==
    /\ timers[t].st = "sch_start"
    /\ timers' =
        IF keep_alive_timer # 0 /\ timers[keep_alive_timer].st = "created"
            THEN [timers EXCEPT ![keep_alive_timer].st = "armed",
                                ![t].st = "done"]
            ELSE [timers EXCEPT ![t].st = "done"]
    /\ UNCHANGED <<idle, quiet, age, consumer, caller, pc, state, rma, raising, keep_alive_active,
                   keep_alive_timer, busVars, result_container, hist>>

\* the caller of process_query calls it again on the same orchestrator, as
\* the loop of run_safe_tests does: process_query up to graph.invoke, the
\* new Timer taking a free place
NextQuery ==
    /\ pc = "returned"
    /\ hist.calls + 1 < MaxCalls
    /\ Unborn \cup Finished # {}
    /\ LET slots == Unborn \cup Finished
           n == CHOOSE m \in slots : \A k \in slots : m <= k
       IN /\ timers' = [timers EXCEPT ![n] = [st |-> "armed",
                                              cancelled |-> FALSE]]
          /\ keep_alive_timer' = n
    /\ keep_alive_active' = TRUE
    /\ state' = InitialState
    /\ hist' = [InitialHist EXCEPT !.calls = hist.calls + 1]
    /\ pc' = "classify_intent"
    /\ quiet' = 0
    /\ UNCHANGED <<idle, age, consumer, caller, rma, raising, busVars,
                   result_container>>

\* ------------------------------------------------------------------------
\* Time. A Timer fires when its interval is over and its callback takes no
\* time on the scale of seconds: the clock waits for a Timer that is due and
\* for a callback that is running.
\* ------------------------------------------------------------------------
LiveTimers == {t \in 1..MaxTimers : timers[t].st = "armed" /\ ~timers[t].cancelled}

InCallback ==
    {t \in 1..MaxTimers :
        timers[t].st \in {"cb_test", "cb_send", "cb_put", "sch_test", "sch_new",
                          "sch_start"}}

\* Timer.run after self.finished.wait(self.interval)
TimerDue(t) ==
    /\ age[t] = HeartbeatInterval
    /\ TimerFire(t)

\* one second passes
Tick ==
    /\ \A t \in LiveTimers : age[t] < HeartbeatInterval
    /\ InCallback = {}
    /\ Len(message_queue) < MaxQueue
    /\ idle' = IF idle > InactivityWindow THEN idle ELSE idle + 1
    /\ quiet' = IF quiet > HeartbeatInterval THEN quiet ELSE quiet + 1
    /\ age' = [t \in 1..MaxTimers |->
                IF t \in LiveTimers THEN age[t] + 1 ELSE age[t]]
    /\ consumer' =
        IF consumer.pc = "joining" /\ consumer.wait < JoinTimeout
            THEN [consumer EXCEPT !.wait = @ + 1]
            ELSE consumer
    /\ UNCHANGED <<caller, pc, state, rma, raising, orchVars,
                   busVars, result_container, hist>>

\* ------------------------------------------------------------------------
\* The consumer: stream() of sse_query_farm_agents iterating get_messages
\* ------------------------------------------------------------------------
TerminalEvents == {"processing_complete", "processing_error", "timeout"}

\* a consumer that takes the newest message
ConsumerGet_Newest ==
    /\ consumer.pc = "polling"
    /\ message_queue # <<>>
    /\ LET msg_data == message_queue[Len(message_queue)] IN
        /\ message_queue' = SubSeq(message_queue, 1, Len(message_queue) - 1)
        /\ consumer' =
            IF msg_data.event \in TerminalEvents
                THEN [consumer EXCEPT !.pc = "done", !.msg = msg_data,
                                      !.how = "break"]
                ELSE [consumer EXCEPT !.msg = msg_data]
    /\ UNCHANGED <<clockVars, caller, pc, state, rma, raising, orchVars,
                   is_active, result_container, hist>>

\* get_messages: the queue is not empty, msg_data = self.message_queue.get()
\* is yielded; stream() sends it and breaks after a terminal event
ConsumerGet ==
    /\ consumer.pc = "polling"
    /\ message_queue # <<>>
    /\ LET msg_data == Head(message_queue) IN
        /\ message_queue' = Tail(message_queue)
        /\ consumer' =
            IF msg_data.event \in TerminalEvents
                THEN [consumer EXCEPT !.pc = "done", !.msg = msg_data,
                                      !.how = "break"]
                ELSE [consumer EXCEPT !.msg = msg_data]
    /\ UNCHANGED <<clockVars, caller, pc, state, rma, raising, orchVars,
                   is_active, result_container, hist>>

\* a watchdog that yields the timeout event and leaves the tracker active
ConsumerTimeout_StaysActive ==
    /\ consumer.pc = "polling"
    /\ is_active
    /\ message_queue = <<>>
    /\ idle > InactivityWindow
    /\ consumer' = [consumer EXCEPT !.pc = "done",
                                    !.msg = Event("timeout", ""),
                                    !.how = "timeout"]
    /\ UNCHANGED <<clockVars, caller, pc, state, rma, raising, orchVars,
                   busVars, result_container, hist>>

\* get_messages: the queue is empty and nothing was admitted for more than
\* the window: the tracker is stopped and the timeout event is yielded
ConsumerTimeout ==
    /\ consumer.pc = "polling"
    /\ is_active
    /\ message_queue = <<>>
    /\ idle > InactivityWindow
    /\ is_active' = FALSE
    /\ consumer' = [consumer EXCEPT !.pc = "done",
                                    !.msg = Event("timeout", ""),
                                    !.how = "timeout"]
    /\ UNCHANGED <<clockVars, caller, pc, state, rma, raising, orchVars,
                   message_queue, result_container, hist>>

\* get_messages: "while self.is_active or not self.message_queue.empty()"
\* is false, the generator returns. The worker puts a terminal event before
\* it stops the tracker, so stream() leaves the loop before this exit.
ConsumerReturn ==
    /\ consumer.pc = "polling"
    /\ ~is_active
    /\ message_queue = <<>>
    /\ consumer' = [consumer EXCEPT !.pc = "done", !.how = "drained"]
    /\ UNCHANGED <<clockVars, caller, pc, state, rma, raising, orchVars,
                   busVars, result_container, hist>>

\* stream(): the loop over get_messages is left, by break or because the
\* generator is exhausted, and processing_thread.join(timeout=5) begins
StreamBreak ==
    /\ consumer.pc = "done"
    /\ consumer' = [consumer EXCEPT !.pc = "joining", !.wait = 0]
    /\ UNCHANGED <<clockVars, caller, pc, state, rma, raising, orchVars,
                   busVars, result_container, hist>>

\* processing_thread.join(timeout=5) returns: the worker thread has ended or
\* five seconds are over
StreamJoin ==
    /\ consumer.pc = "joining"
    /\ pc = "worker_done" \/ consumer.wait = JoinTimeout
    /\ consumer' = [consumer EXCEPT !.pc = "final"]
    /\ UNCHANGED <<clockVars, caller, pc, state, rma, raising, orchVars,
                   busVars, result_container, hist>>

\* what stream() sends for each content of result_container: the results
\* (meta, an agent_result for every entry, final_response) and complete, or
\* error and trace, or timeout
FinalEvents(container) ==
    IF container.result
        THEN <<"meta", "agent_result", "final_response", "complete">>
        ELSE IF container.error
            THEN <<"error", "trace">>
            ELSE <<"timeout">>

\* stream(): "Send final results"
StreamFinal ==
    /\ consumer.pc = "final"
    /\ consumer' = [consumer EXCEPT !.pc = "cleanup",
                                    !.sent = FinalEvents(result_container)]
    /\ UNCHANGED <<clockVars, caller, pc, state, rma, raising, orchVars,
                   busVars, result_container, hist>>

\* stream(): finally: progress_tracker.stop()
StreamStop ==
    /\ consumer.pc = "cleanup"
    /\ is_active' = FALSE
    /\ consumer' = [consumer EXCEPT !.pc = "closed"]
    /\ UNCHANGED <<clockVars, caller, pc, state, rma, raising, orchVars,
                   message_queue, result_container, hist>>

\* ------------------------------------------------------------------------
\* Specifications
\* ------------------------------------------------------------------------
Pipeline(cls, ags, dec, ver, nts, svs) ==
    \/ StartQuery
    \/ ClassifyIntent(cls)
    \/ RunSingleAgent(ags)
    \/ RunMultipleBegin
    \/ RunMultipleStep(ags)
    \/ RunMultipleEnd
    \/ MakeDecision(dec)
    \/ VerifyResponse(ver)
    \/ CheckConfidence
    \/ SendNotifications(nts)
    \/ SaveQuery(svs)
    \/ StopFlag
    \/ StopTest
    \/ StopCancel
    \/ StopClear

Heartbeat ==
    \E t \in 1..MaxTimers :
        \/ TimerFire(t)
        \/ KeepAliveTest(t)
        \/ KeepAliveSend(t)
        \/ ScheduleTest(t)
        \/ ScheduleNew(t)
        \/ ScheduleStart(t)

\* process_query called as run_safe_tests calls it, with every fault of the
\* oracles, the agents and the collaborators
Next ==
    \/ Pipeline(ClassifierOutputs, AgentOutcomes, DecisionOutputs,
                VerifierOutputs, NotificationOutcomes, SaveOutcomes)
    \/ Heartbeat

Spec == Init /\ [][Next]_vars


\* The inputs of the threaded endpoint. Its test_context has user_id None,
\* so _save_query_safely returns at once.
SSEClassifierOutputs ==
    {[kind |-> "raise", agents_needed |-> <<>>, hasConf |-> FALSE, conf |-> 0],
     [kind |-> "json", agents_needed |-> <<"pest">>, hasConf |-> FALSE,
      conf |-> 0]}

SSEAgentOutcomes == {"ok", "raise"}

SSEVerifierOutputs ==
    {[kind |-> "raise", value |-> 0], [kind |-> "number", value |-> 59]}

\* sse_query_farm_agents: the worker thread runs process_query with the
\* tracker's add_message as progress callback
NextSSE ==
    \/ Pipeline(SSEClassifierOutputs, SSEAgentOutcomes, {"answer"},
                SSEVerifierOutputs, {"ok"}, {"no_user_id"})
    \/ WorkerResult
    \/ WorkerFinally
    \/ Heartbeat

SpecSSE == InitSSE /\ [][NextSSE]_vars

\* the same, where graph.invoke may also end with an exception
NextSSEFault ==
    \/ NextSSE
    \/ PipelineRaise
    \/ WorkerExcept

SpecSSEFault == InitSSE /\ [][NextSSEFault]_vars

\* the worker thread of sse_query_farm_agents
WorkerThread ==
    \/ Pipeline(SSEClassifierOutputs, SSEAgentOutcomes, {"answer"},
                SSEVerifierOutputs, {"ok"}, {"no_user_id"})
    \/ WorkerResult
    \/ WorkerFinally

\* the threaded endpoint with the consumer of the stream. The worker and the
\* timer threads are scheduled and every call returns; the consumer may be
\* held by the client for any time.
NextStream ==
    \/ NextSSE
    \/ ConsumerGet

SpecStream ==
    /\ InitSSE
    /\ [][NextStream]_vars
    /\ WF_vars(WorkerThread)
    /\ WF_vars(Heartbeat)

HeartbeatTimed ==
    \E t \in 1..MaxTimers :
        \/ TimerDue(t)
        \/ KeepAliveTest(t)
        \/ KeepAliveSend(t)
        \/ ScheduleTest(t)
        \/ ScheduleNewReuse(t)
        \/ ScheduleStart(t)

TimedClassifierOutputs ==
    {[kind |-> "json", agents_needed |-> <<"pest">>, hasConf |-> FALSE,
      conf |-> 0]}

\* the worker thread of a run with one agent
TimedWorker ==
    \/ StartQuery
    \/ ClassifyIntent(TimedClassifierOutputs)
    \/ RunSingleAgent({"ok"})
    \/ MakeDecision({"answer"})
    \/ VerifyResponse({[kind |-> "number", value |-> 59]})
    \/ CheckConfidence
    \/ SaveQuery({"no_user_id"})
    \/ StopFlag
    \/ StopTest
    \/ StopCancel
    \/ StopClear
    \/ WorkerResult
    \/ WorkerFinally

\* the threaded endpoint with the clock. The thread of process_query has no
\* fairness: an agent or an oracle may take any time, or never return.
NextTimed ==
    \/ TimedWorker
    \/ HeartbeatTimed
    \/ Tick
    \/ ConsumerGet
    \/ ConsumerTimeout

SpecTimed ==
    /\ InitSSE
    /\ [][NextTimed]_vars
    /\ WF_vars(HeartbeatTimed)
    /\ WF_vars(Tick)
    /\ WF_vars(ConsumerGet \/ ConsumerTimeout)

\* the worker thread with every fault of the oracles, the agents and the
\* notifier
WorkerRun ==
    \/ Pipeline(ClassifierOutputs, AgentOutcomes, DecisionOutputs,
                VerifierOutputs, NotificationOutcomes, {"no_user_id"})
    \/ WorkerResult
    \/ WorkerFinally

\* the threaded endpoint in a run that is over before the first Timer is due
\* and whose stream nobody has read yet: message_queue is the sequence of
\* the events the run has emitted. The worker thread is scheduled and every
\* call it makes returns.
SpecWorker == InitSSE /\ [][WorkerRun]_vars /\ WF_vars(WorkerRun)

\* process_query called directly, without the timer threads, where
\* graph.invoke may also end with an exception
NextRaise ==
    \/ Pipeline(ClassifierOutputs, AgentOutcomes, DecisionOutputs,
                VerifierOutputs, NotificationOutcomes, SaveOutcomes)
    \/ PipelineRaise

SpecRaise == Init /\ [][NextRaise]_vars


\* the timer threads, any number of Timer objects being created
HeartbeatReuse ==
    \E t \in 1..MaxTimers :
        \/ TimerFire(t)
        \/ KeepAliveTest(t)
        \/ KeepAliveSend(t)
        \/ ScheduleTest(t)
        \/ ScheduleNewReuse(t)
        \/ ScheduleStart(t)

\* process_query called several times in sequence on one orchestrator, each
\* run with one agent
NextRepeat ==
    \/ StartQuery
    \/ NextQuery
    \/ ClassifyIntent(TimedClassifierOutputs)
    \/ RunSingleAgent({"ok"})
    \/ MakeDecision({"answer"})
    \/ VerifyResponse({[kind |-> "number", value |-> 59]})
    \/ CheckConfidence
    \/ SaveQuery({"no_user_id"})
    \/ StopFlag
    \/ StopTest
    \/ StopCancel
    \/ StopClear
    \/ HeartbeatReuse

SpecRepeat == Init /\ [][NextRepeat]_vars

\* stream() after its loop
StreamEnd ==
    \/ StreamBreak
    \/ StreamJoin
    \/ StreamFinal
    \/ StreamStop

\* the threaded endpoint with the clock and the whole of stream(), where
\* graph.invoke may also end with an exception
NextFinal ==
    \/ NextTimed
    \/ PipelineRaise
    \/ WorkerExcept
    \/ StreamEnd

SpecFinal ==
    /\ InitSSE
    /\ [][NextFinal]_vars
    /\ WF_vars(HeartbeatTimed)
    /\ WF_vars(Tick)
    /\ WF_vars(ConsumerGet \/ ConsumerTimeout \/ StreamEnd)

\* the timer threads, add_message taking its two steps
HeartbeatSteps ==
    \E t \in 1..MaxTimers :
        \/ TimerFire(t)
        \/ KeepAliveTest(t)
        \/ KeepAliveCheck(t)
        \/ KeepAlivePut(t)
        \/ ScheduleTest(t)
        \/ ScheduleNew(t)
        \/ ScheduleStart(t)

\* the threaded endpoint with the consumer, where the tracker's test of
\* is_active and its put are two steps of the timer thread
NextRace ==
    \/ WorkerThread
    \/ HeartbeatSteps
    \/ ConsumerGet

SpecRace == InitSSE /\ [][NextRace]_vars

\* ------------------------------------------------------------------------
\* Vocabulary of the properties
\* ------------------------------------------------------------------------
Range(seq) == {seq[k] : k \in 1..Len(seq)}

IsKnown(name) == name \in AgentNames

StopPcs == {"stop_flag", "stop_test", "stop_cancel", "stop_clear"}

EndPcs == {"returned", "worker_result", "worker_finally", "worker_done"}

\* the graph has reached END without an exception
GraphDone == ~raising /\ pc \in {"END"} \cup StopPcs \cup EndPcs

\* process_query has returned its result to the caller
Returned == ~raising /\ pc \in EndPcs

\* the run has left each of these nodes
PastClassify == pc \notin {"idle", "classify_intent"}

PastDecision ==
    ~raising /\ pc \in {"verifier_agent", "check_confidence",
                        "notification_agent", "END"} \cup StopPcs \cup EndPcs

PastVerify ==
    ~raising /\ pc \in {"check_confidence", "notification_agent", "END"}
                        \cup StopPcs \cup EndPcs

PastCheck ==
    ~raising /\ pc \in {"notification_agent", "END"} \cup StopPcs \cup EndPcs

\* the run took the fan-out path
FanOut == PastClassify /\ route_to_agents(state) = "multiple"

\* the result map run_multiple_agents is filling, or has handed over
RunnerMap ==
    IF pc = "rma_loop" THEN rma.agent_responses ELSE state.agent_responses

\* ------------------------------------------------------------------------
\* Properties
\* ------------------------------------------------------------------------

\* C1: when process_query returns, the keys of agent_responses are exactly
\* the names in agents_to_run.
C1_KeysEqualAgentsToRun ==
    Returned => DOMAIN state.agent_responses = Range(state.agents_to_run)

\* what holds of the keys instead: they are the names of agents_to_run that
\* belong to the closed agent set
KeysAreKnownPlannedAgents ==
    Returned =>
        DOMAIN state.agent_responses =
            {n \in Range(state.agents_to_run) : IsKnown(n)}

\* C2: once check_confidence has run, require_human_feedback is true exactly
\* when the confidence score is below 0.6, and a run that requires human
\* feedback never enters the notification node nor calls
\* process_notifications.
C2_FeedbackIffLowConfidence ==
    PastCheck =>
        /\ state.require_human_feedback
            <=> FloatLt(state.confidence_score, ConfidenceThreshold)
        /\ state.require_human_feedback =>
            pc # "notification_agent" /\ hist.notifyCalls = 0

C2_Witness ==
    /\ Returned
    /\ state.require_human_feedback
    /\ hist.verifierOk
    /\ hist.notifyCalls = 0

C4_ProcessQueryReturns ==
    /\ ~raising
    /\ pc # "raised"
    /\ pc # "returned" =>
        ENABLED Pipeline(ClassifierOutputs, AgentOutcomes, DecisionOutputs,
                         VerifierOutputs, NotificationOutcomes, SaveOutcomes)

C4_Witness ==
    /\ pc = "returned"
    /\ ~hist.classifierOk
    /\ hist.outcomes = <<"raise", "raise">>
    /\ state.final_response = ErrorResponse
    /\ ~hist.verifierOk
    /\ hist.notifyRaised
    /\ hist.saveOutcome = "db_error"

\* C5: when the classification oracle raises or returns text that is not
\* valid JSON, the plan is [weather, soil], the intent label is "multiple",
\* the run enters the fan-out stage with confidence 0.5 and an empty result
\* map, and no exception is propagating.
C5_ClassifierFallback ==
    (PastClassify /\ ~hist.classifierOk) =>
        /\ state.agents_to_run = <<"weather", "soil">>
        /\ state.intent_classification = "multiple"
        /\ pc \notin SingleAgentNodes
        /\ ~raising
        /\ pc = "run_multiple_agents" =>
            /\ state.confidence_score = 50
            /\ DOMAIN state.agent_responses = {}

C5_Witness ==
    /\ pc = "run_multiple_agents"
    /\ ~hist.classifierOk
    /\ state.confidence_score = 50

\* C6: when the result map is empty at the decision stage, the final answer
\* is the fixed apology and make_decision has not called the oracle.
C6_EmptyMapApology ==
    (PastDecision /\ DOMAIN state.agent_responses = {}) =>
        /\ state.final_response = ApologyResponse
        /\ hist.decisionOracleCalls = 0

C6_Witness ==
    /\ Returned
    /\ state.agents_to_run = <<"drone", "drone">>
    /\ DOMAIN state.agent_responses = {}
    /\ state.final_response = ApologyResponse

\* C7: when the verification oracle raises or its text is not a number, the
\* confidence score is 0.7, require_human_feedback is false, the run goes to
\* the notification node and process_notifications is called once before the
\* graph ends.
C7_VerifierFallback ==
    (PastVerify /\ ~hist.verifierOk) =>
        /\ state.confidence_score = 70
        /\ ~state.require_human_feedback
        /\ GraphDone => hist.notifyCalls = 1

C7_Witness ==
    /\ Returned
    /\ ~hist.verifierOk
    /\ state.confidence_score = 70
    /\ hist.notifyCalls = 1

\* C8: no keep_alive event is handed to the progress callback after
\* _stop_keep_alive has returned.
C8_NoKeepAliveAfterStop == ~hist.kaAfterStop

\* C9: when the worker's run is over, by return or by exception,
\* keep_alive_active is false, no timer is left pending and the tracker is
\* inactive.
C9_StoppedOnEveryExit ==
    pc = "worker_done" =>
        /\ ~keep_alive_active
        /\ LiveTimers = {}
        /\ ~is_active

\* C10: after _stop_keep_alive has returned no timer is armed, and cancel()
\* has been called at most once.
C10_NoTimerAfterStop ==
    /\ hist.stopReturned => LiveTimers = {}
    /\ hist.cancelCalls <= 1

\* the nodes in which the thread of process_query waits for an oracle, an
\* agent or a collaborator
CallNodes ==
    {"classify_intent", "rma_loop", "decision_llm", "verifier_agent",
     "notification_agent"} \cup SingleAgentNodes

\* C11: if the pipeline stalls in a call that never returns, the consumer
\* loop ends: it marks the tracker inactive and yields the timeout event,
\* also while the heartbeat goes on putting keep_alive events.
C11_StallEndsInTimeout ==
    <>[](pc \in CallNodes) =>
        <>(consumer.pc = "done" /\ consumer.how = "timeout" /\ ~is_active)

\* a is an initial part of b
IsPrefix(a, b) == Len(a) <= Len(b) /\ SubSeq(b, 1, Len(a)) = a

\* C12: events reach the consumer in the order of their admission. Every
\* step either leaves the consumer alone and only appends to the queue (so
\* the events of the pipeline thread and the keep_alive events of the timer
\* threads wait in the order add_message put them), or hands the consumer
\* the oldest waiting event and removes exactly that event from the queue:
\* nothing is reordered, yielded twice or merged.
C12_FifoDelivery ==
    [][\/ /\ consumer' = consumer
          /\ IsPrefix(message_queue, message_queue')
       \/ /\ message_queue # <<>>
          /\ consumer'.msg = Head(message_queue)
          /\ message_queue' = Tail(message_queue)]_vars

C12_Witness ==
    /\ consumer.msg = Event("intent_classified", "")
    /\ Len(message_queue) >= 3
    /\ message_queue[1].event = "keep_alive"
    /\ message_queue[2].event = "x_agent_start"
    /\ message_queue[3].event = "x_agent_complete"

\* C13: when the iteration of get_messages has ended without the watchdog
\* and the tracker has been stopped, every admitted event has been yielded:
\* none is left in the queue.
C13_DrainedBeforeEnd ==
    (consumer.pc = "done" /\ consumer.how # "timeout" /\ ~is_active) =>
        message_queue = <<>>

\* C14: although the consumer may never take an event out of the queue, or
\* has ended, a timer thread that is about to hand keep_alive to the
\* callback can always do so, and the worker thread reaches its end.
C14_PipelineEnds ==
    /\ [](\A t \in 1..MaxTimers :
            timers[t].st = "cb_send" => ENABLED KeepAliveSend(t))
    /\ <>(pc = "worker_done")

C14_Witness ==
    /\ pc = "worker_done"
    /\ consumer = NoConsumer
    /\ Len(message_queue) >= 11
    /\ message_queue[Len(message_queue)].event = "processing_complete"
    /\ \E k \in 1..Len(message_queue) : message_queue[k].event = "keep_alive"

IsKeepAlive(ev) == ev.event = "keep_alive"

\* C15: the number of events waiting in the queue stays below a fixed
\* capacity. The events of the pipeline are finitely many in a run, so the
\* capacity has to bound the keep_alive events that wait; the clock of the
\* model stops when MaxQueue events wait.
C15_QueueBounded ==
    Len(SelectSeq(message_queue, IsKeepAlive)) < MaxQueue

\* C16: while the run is active the heartbeat is armed again after each
\* firing (outside a running callback a Timer is pending) and the progress
\* callback is never left without a call for more than one interval.
C16_HeartbeatEveryInterval ==
    keep_alive_active =>
        /\ quiet <= HeartbeatInterval
        /\ InCallback = {} => LiveTimers # {}

C16_Witness ==
    /\ pc = "pest_agent"
    /\ keep_alive_active
    /\ timers[1].st = "armed"
    /\ timers[2].st = "done"
    /\ quiet = HeartbeatInterval
    /\ consumer.msg = Event("keep_alive", "")
    /\ message_queue = <<Event("keep_alive", "")>>

\* C17: when process_query returns, final_response is not empty and
\* confidence_score lies in [0, 1].
C17_AnswerAndConfidence ==
    Returned =>
        /\ state.final_response # ""
        /\ state.confidence_score \in 0..100

\* C18: when the classifier's label is one category c of the closed set,
\* the run goes to the node of c and never enters run_multiple_agents, only
\* c is invoked, once, and from the decision stage on c is the only key of
\* the result map, whether c succeeded or failed.
C18_SingleAgentPlan ==
    (PastClassify /\ IsKnown(state.intent_classification)) =>
        LET c == state.intent_classification IN
        /\ pc \notin {"run_multiple_agents", "rma_loop"}
        /\ rma.i = 0
        /\ pc \in SingleAgentNodes => pc = RouteNode(c) /\ hist.invoked = <<>>
        /\ pc \notin SingleAgentNodes =>
            /\ hist.invoked = <<c>>
            /\ DOMAIN state.agent_responses = {c}

C18_Witness ==
    /\ Returned
    /\ state.intent_classification = "pest"
    /\ hist.outcomes = <<"raise">>
    /\ DOMAIN state.agent_responses = {"pest"}
    /\ state.agent_responses["pest"].isError

\* a >= b on floats
FloatGe(a, b) == a # NaN /\ b # NaN /\ a >= b

\* C19: process_notifications is called only after the verifier, with the
\* final answer, at most once, and the graph ends after it; when the graph
\* has ended with a confidence of at least 0.6 it has been called exactly
\* once. For the plan [weather, soil] both agents have been invoked in
\* that order when the decision stage begins, whatever each of them met,
\* and the synthesis oracle is not called before.
C19_NotifiedOnce ==
    /\ hist.notifyCalls > 0 =>
        /\ GraphDone
        /\ hist.notifyCalls = 1
        /\ hist.notifyArg = state.final_response
    /\ (GraphDone /\ FloatGe(state.confidence_score, ConfidenceThreshold)) =>
        hist.notifyCalls = 1
    /\ hist.decisionOracleCalls > 0 => PastDecision
    /\ ((pc = "decision_llm" \/ PastDecision)
            /\ state.agents_to_run = <<"weather", "soil">>) =>
        hist.invoked = <<"weather", "soil">>

C19_Witness ==
    /\ Returned
    /\ hist.classifierOk
    /\ state.agents_to_run = <<"weather", "soil">>
    /\ hist.outcomes = <<"raise", "ok">>
    /\ state.confidence_score = 60
    /\ hist.notifyCalls = 1
    /\ hist.notifyArg = "answer"

NoDuplicates(seq) == \A i, j \in 1..Len(seq) : i # j => seq[i] # seq[j]

\* C20: after a successful parse of the classifier's output agents_to_run
\* has no duplicates and only names of the closed set, and the intent label
\* is the category when exactly one is left and "multiple" otherwise.
C20_PlanFilteredAndDeduplicated ==
    (PastClassify /\ hist.classifierOk) =>
        /\ NoDuplicates(state.agents_to_run)
        /\ \A n \in Range(state.agents_to_run) : IsKnown(n)
        /\ state.intent_classification =
            IF Len(state.agents_to_run) = 1
                THEN state.agents_to_run[1]
                ELSE "multiple"

\* the run has left the agent-execution stage
PastAgents ==
    pc \notin {"idle", "classify_intent", "run_multiple_agents", "rma_loop"}
               \cup SingleAgentNodes

\* the names of seq in the order of their first occurrence
RECURSIVE FirstOccurrences(_)
FirstOccurrences(seq) ==
    IF seq = <<>>
        THEN <<>>
        ELSE LET front == FirstOccurrences(SubSeq(seq, 1, Len(seq) - 1))
                 last == seq[Len(seq)]
             IN IF last \in Range(front) THEN front ELSE Append(front, last)

\* C21: when the fan-out runner has finished, the agents it invoked are the
\* known names of agents_needed (which classify_intent stored as
\* agents_to_run) in the order of their first occurrence, each invoked once,
\* known names after an unknown one included, and every unknown name of
\* agents_needed has a warning event.
C21_FanOutPlan ==
    (FanOut /\ PastAgents /\ hist.classifierOk) =>
        /\ hist.invoked =
            FirstOccurrences(SelectSeq(state.agents_to_run, IsKnown))
        /\ \A n \in Range(state.agents_to_run) :
            ~IsKnown(n) =>
                \E k \in 1..Len(message_queue) :
                    message_queue[k] = Event("warning", n)

\* C22: the notification node leaves the session as it found it and hands
\* over to END without an exception, whether process_notifications raised
\* or not; a run whose notifier raised goes on to return its result.
C22_NotificationFaultSwallowed ==
    /\ [][(pc = "notification_agent" /\ pc' # pc) =>
            /\ state' = state
            /\ ~raising'
            /\ pc' = "END"]_vars
    /\ [](hist.notifyRaised => ~raising)
    /\ <>(pc = "worker_done" /\ result_container.result)

C22_Witness ==
    /\ pc = "worker_done"
    /\ result_container.result
    /\ hist.notifyRaised
    /\ state.final_response = "answer"
    /\ state.confidence_score = 60
    /\ ~state.require_human_feedback
    /\ DOMAIN state.agent_responses = {"pest"}

\* C23: _save_query_safely is called once in a run whose graph reached END,
\* after END, and never in a run that an exception ended; it writes one
\* record when the account was found and the store accepted it, and none
\* otherwise; whatever it met, it leaves the session as it was and no
\* exception leaves it.
C23_SavedOnceAfterEnd ==
    /\ [](hist.saveCalls = (IF GraphDone /\ pc # "END" THEN 1 ELSE 0))
    /\ [](raising => hist.saveCalls = 0)
    /\ [](hist.saved = (IF hist.saveOutcome = "saved" THEN 1 ELSE 0))
    /\ [][(pc = "END" /\ pc' # pc) =>
            /\ state' = state
            /\ ~raising'
            /\ pc' = "stop_flag"]_vars

C23_Witness ==
    /\ pc = "returned"
    /\ ~raising
    /\ hist.saveCalls = 1
    /\ hist.saveOutcome = "db_error"
    /\ hist.saved = 0
    /\ state.final_response = "answer"

\* a run that an exception ended has not called _save_query_safely
C23_WitnessRaised ==
    /\ pc = "raised"
    /\ raising
    /\ hist.saveCalls = 0

\* C24: once the watchdog has stopped the tracker or the consumer has left
\* the stream, the worker thread still has its next step to take until it
\* is done, no step of the consumer touches the session or the position of
\* the pipeline, and the finished run has invoked its planned agent, holds
\* its entry in the result map and has handed over its result.
C24_NoCancellation ==
    /\ []((~is_active \/ consumer.pc = "done") =>
            /\ ~raising
            /\ pc # "worker_done" => ENABLED TimedWorker
            /\ pc = "worker_done" =>
                /\ hist.invoked = <<"pest">>
                /\ DOMAIN state.agent_responses = {"pest"}
                /\ state.final_response = "answer"
                /\ result_container.result)
    /\ [][consumer' # consumer => UNCHANGED <<pc, state, rma, raising>>]_vars

\* the watchdog fired before the agent was called, and the run went on to
\* its end with every event dropped
C24_Witness ==
    /\ pc = "worker_done"
    /\ consumer.how = "timeout"
    /\ consumer.msg = Event("timeout", "")
    /\ hist.invoked = <<"pest">>
    /\ DOMAIN state.agent_responses = {"pest"}
    /\ result_container.result
    /\ message_queue = <<>>

\* the tracker is stopped while the agent has not been called yet
C24_StoppedBeforeAgent ==
    /\ pc = "pest_agent"
    /\ ~is_active
    /\ consumer.how = "timeout"

\* the nodes of the worker thread whose step calls add_message
EmittingPcs ==
    {"classify_intent", "run_multiple_agents", "rma_loop", "decision_llm",
     "verifier_agent", "notification_agent", "worker_result"}
    \cup SingleAgentNodes

\* the contexts whose next step assigns the shared variable v
WritersNow(v) ==
    CASE v = "keep_alive_timer" ->
            {c \in {"worker"} : pc \in {"idle", "stop_clear"}}
            \cup {c \in {"timer"} : \E t \in 1..MaxTimers :
                                        timers[t].st = "sch_new"}
      [] v = "last_activity" ->
            {c \in {"worker"} :
                caller = "sse" /\ is_active /\ pc \in EmittingPcs}
            \cup {c \in {"timer"} :
                caller = "sse" /\ is_active
                /\ \E t \in 1..MaxTimers : timers[t].st = "cb_send"}
      [] v = "is_active" ->
            {c \in {"worker"} : pc = "worker_finally"}
            \cup {c \in {"consumer"} : ENABLED ConsumerTimeout}

\* C25: of the variables other than the event queue, none is written by two
\* contexts: at no time are two of the worker thread, the timer threads and
\* the consumer each about to assign the tracker's active flag, its
\* last-activity time or the orchestrator's timer handle.
C25_SingleWriter ==
    \A v \in {"keep_alive_timer", "last_activity", "is_active"} :
        Cardinality(WritersNow(v)) <= 1

\* the events of run_<agent>_agent
IsGatewayEvent(e) ==
    e.event \in {"x_agent_start", "x_agent_complete", "x_agent_error"}

\* C26: the events of the gateways come in pairs, one pair for each
\* invocation in the order of the invocations: the agent's start event, then
\* either its complete event or its error event; the second is the complete
\* event exactly when the entry stored for the agent is a Success, and the
\* error event exactly when it is a Failure, whether the agent raised or
\* returned an error result.
C26_StartThenCompleteOrError ==
    LET G == SelectSeq(message_queue, IsGatewayEvent) IN
    /\ Len(G) = 2 * Len(hist.invoked)
    /\ \A k \in 1..Len(hist.invoked) :
        LET name == hist.invoked[k] IN
        /\ G[2 * k - 1] = Event("x_agent_start", name)
        /\ G[2 * k] \in {Event("x_agent_complete", name),
                         Event("x_agent_error", name)}
        /\ (\A j \in (k + 1)..Len(hist.invoked) : hist.invoked[j] # name) =>
            /\ name \in DOMAIN state.agent_responses
            /\ G[2 * k].event = "x_agent_complete"
                <=> ~state.agent_responses[name].isError

\* the events run_multiple_agents and the gateways emit about one agent
IsAgentEvent(e) == e.agent # "" /\ e.event # "warning"

\* the positions of the known names of seq, in increasing order
KnownPositions(seq) ==
    LET AtKnown(i) == IsKnown(seq[i])
    IN SelectSeq([i \in 1..Len(seq) |-> i], AtKnown)

\* C27: in a fan-out run the agents invoked so far are the known names of
\* the plan up to the runner's position, in plan order; the events about
\* agents come in one block for each invocation, in the order of the
\* invocations, and each block begins with the running event that shows the
\* agent's position i in the plan and the plan's length N, followed by the
\* gateway's start event.
C27_SequentialInPlanOrder ==
    (FanOut /\ pc # "run_multiple_agents") =>
        LET plan == state.agents_to_run
            done == IF pc = "rma_loop" THEN rma.i - 1 ELSE Len(plan)
            pos == KnownPositions(SubSeq(plan, 1, done))
            E == SelectSeq(message_queue, IsAgentEvent)
        IN /\ Len(hist.invoked) = Len(pos)
           /\ Len(E) = 4 * Len(pos)
           /\ \A k \in 1..Len(pos) :
                LET name == plan[pos[k]] IN
                /\ hist.invoked[k] = name
                /\ E[4 * k - 3] =
                    CountedEvent("agent_running", name, pos[k], Len(plan))
                /\ E[4 * k - 2] = Event("x_agent_start", name)
                /\ E[4 * k - 1].agent = name
                /\ E[4 * k].agent = name

C27_Witness ==
    /\ pc = "decision_llm"
    /\ state.agents_to_run = <<"weather", "soil">>
    /\ hist.invoked = <<"weather", "soil">>
    /\ hist.outcomes = <<"raise", "ok">>
    /\ SelectSeq(message_queue, IsAgentEvent) =
        <<CountedEvent("agent_running", "weather", 1, 2),
          Event("x_agent_start", "weather"),
          Event("x_agent_error", "weather"),
          Event("agent_complete", "weather"),
          CountedEvent("agent_running", "soil", 2, 2),
          Event("x_agent_start", "soil"),
          Event("x_agent_complete", "soil"),
          Event("agent_complete", "soil")>>

IsSummary(e) == e.event = "multiple_agents_complete"

\* C28: while the runner is at work there is no summary event; once it has
\* finished there is exactly one, it comes after every event about an agent
\* of the plan, and it shows the number of Success entries of the result map
\* and N, the number of agents of the plan.
C28_OneSummary ==
    FanOut =>
        LET summaries == SelectSeq(message_queue, IsSummary)
            N == Len(state.agents_to_run)
        IN /\ ~PastAgents => summaries = <<>>
           /\ PastAgents =>
                /\ Len(summaries) = 1
                /\ \A k \in 1..Len(message_queue) :
                    (message_queue[k].agent # "") =>
                        \E j \in (k + 1)..Len(message_queue) :
                            IsSummary(message_queue[j])
                /\ summaries[1].info =
                    <<success_count(state.agent_responses), N>>

\* what the summary shows instead of N: the size of the result map
C28_SummaryCountsEntries ==
    (FanOut /\ PastAgents) =>
        \A k \in 1..Len(message_queue) :
            IsSummary(message_queue[k]) =>
                message_queue[k].info =
                    <<success_count(state.agent_responses),
                      Cardinality(DOMAIN state.agent_responses)>>

\* C29: the decision stage calls the synthesis oracle when the result map is
\* not empty, once, with a prompt that shows the whole result map, the
\* Failure entries as well; when the oracle fails the final response is the
\* fixed error text, no exception leaves the stage and the verifier is next.
C29_WholeMapToOracle ==
    /\ []((PastDecision /\ DOMAIN state.agent_responses # {}) =>
            /\ hist.decisionOracleCalls = 1
            /\ hist.decisionArg = state.agent_responses)
    /\ []((PastDecision /\ ~hist.decisionOk) =>
            state.final_response = ErrorResponse)
    /\ [][(pc = "decision_llm" /\ pc' # pc) =>
            pc' = "verifier_agent" /\ ~raising']_vars

C29_Witness ==
    /\ pc = "verifier_agent"
    /\ ~hist.decisionOk
    /\ state.final_response = ErrorResponse
    /\ hist.decisionOracleCalls = 1
    /\ DOMAIN hist.decisionArg = {"weather", "soil"}
    /\ hist.decisionArg["weather"].isError
    /\ ~hist.decisionArg["soil"].isError

\* the stage each node of the graph belongs to
StageOf(node) ==
    CASE node = "classify_intent" -> 1
      [] node \in SingleAgentNodes \cup {"run_multiple_agents", "rma_loop"} -> 2
      [] node = "decision_llm" -> 3
      [] node = "verifier_agent" -> 4
      [] node = "check_confidence" -> 5
      [] node = "notification_agent" -> 6
      [] node = "END" -> 7

GraphNodes ==
    {"classify_intent", "run_multiple_agents", "rma_loop", "decision_llm",
     "verifier_agent", "check_confidence", "notification_agent"}
    \cup SingleAgentNodes

CountOf(kind) ==
    LET IsKind(e) == e.event = kind
    IN Len(SelectSeq(message_queue, IsKind))

\* C30: the graph goes from each stage to the next one, classifier (with
\* the router's choice of the agent node), agent execution, decision,
\* verifier, confidence check, then notification or END, and leaves out
\* only the notification; so no stage runs twice: at END the classifier,
\* the decision stage and the verifier have each announced themselves once;
\* and every run reaches END.
C30_StagesInOrder ==
    /\ [][(pc \in GraphNodes /\ pc' # pc) =>
            /\ pc' \in GraphNodes \cup {"END"}
            /\ \/ StageOf(pc') = StageOf(pc) + 1
               \/ pc = "run_multiple_agents" /\ pc' = "rma_loop"
               \/ pc = "check_confidence" /\ pc' = "END"]_vars
    /\ [](pc \in SingleAgentNodes => pc = RouteNode(route_to_agents(state)))
    /\ [](pc \in {"run_multiple_agents", "rma_loop"} =>
            route_to_agents(state) = "multiple")
    /\ [](pc = "END" =>
            /\ CountOf("agent_start") = 1
            /\ CountOf("decision_start") = 1
            /\ CountOf("verifier_start") = 1
            /\ CountOf("notification_start") = hist.notifyCalls
            /\ hist.notifyCalls <= 1)
    /\ <>(pc = "END")

C30_Witness ==
    /\ pc = "END"
    /\ state.require_human_feedback
    /\ hist.notifyCalls = 0
    /\ state.agents_to_run = <<"weather", "soil">>
    /\ hist.invoked = <<"weather", "soil">>
    /\ CountOf("multiple_agents_complete") = 1
    /\ CountOf("decision_start") = 1
    /\ CountOf("verifier_start") = 1

\* C31: in every state of a run confidence_score lies in [0, 1]: neither
\* the classifier's confidence nor the verifier's score leaves the interval.
C31_ConfidenceInUnitInterval ==
    state.confidence_score \in 0..100

\* C32: once get_messages has yielded the timeout event the tracker is
\* inactive, the timeout event stays the last event the consumer was
\* handed (so there is one timeout event at most), and nothing the worker
\* or the timer threads emit from then on is delivered.
C32_TimeoutIsLast ==
    /\ [](consumer.how = "timeout" =>
            /\ consumer.pc = "done"
            /\ consumer.msg = Event("timeout", "")
            /\ ~is_active)
    /\ [][consumer.pc = "done" => consumer' = consumer]_vars

\* the run emits its remaining events after the timeout event
C32_Witness ==
    /\ consumer.how = "timeout"
    /\ consumer.msg = Event("timeout", "")
    /\ pc = "verifier_agent"
    /\ state.final_response = "answer"
    /\ ~is_active
    /\ message_queue = <<>>

\* the keys of the conditional edges out of classify_intent
RoutingKeys == AgentNames \cup {"multiple"}

\* the classifier's list was one name outside the closed set
SingleUnknownName ==
    /\ PastClassify
    /\ hist.classifierOk
    /\ Len(state.agents_to_run) = 1
    /\ ~IsKnown(state.agents_to_run[1])

\* C33: whatever label classify_intent stored, route_to_agents returns one
\* of the seven routing keys and the run is at a node of the graph; a single
\* name outside the closed set goes to the fan-out runner, which drops it
\* with a warning and invokes no agent, the synthesis oracle is not called
\* and the final response is the fixed apology.
C33_EveryLabelRouted ==
    /\ PastClassify =>
        /\ route_to_agents(state) \in RoutingKeys
        /\ Cardinality(RoutingKeys) = 7
        /\ pc \in SingleAgentNodes => pc = RouteNode(route_to_agents(state))
    /\ SingleUnknownName =>
        /\ state.intent_classification = state.agents_to_run[1]
        /\ route_to_agents(state) = "multiple"
        /\ pc \notin SingleAgentNodes
        /\ hist.invoked = <<>>
        /\ PastAgents =>
            /\ DOMAIN state.agent_responses = {}
            /\ \E k \in 1..Len(message_queue) :
                message_queue[k] = Event("warning", state.agents_to_run[1])
        /\ PastDecision =>
            /\ state.final_response = ApologyResponse
            /\ hist.decisionOracleCalls = 0

C33_Witness ==
    /\ pc = "worker_done"
    /\ result_container.result
    /\ state.agents_to_run = <<"drone">>
    /\ state.intent_classification = "drone"
    /\ state.final_response = ApologyResponse
    /\ hist.invoked = <<>>

\* the heartbeat chains that are alive: a Timer that will fire, or a timer
\* thread in its callback
HeartbeatChains == LiveTimers \cup InCallback

\* C34: when process_query is called several times in sequence on one
\* orchestrator, at most one heartbeat chain is alive at any time.
C34_OneHeartbeatChain == Cardinality(HeartbeatChains) <= 1

\* C35: in a fan-out run the runner's agent_complete event is emitted only
\* for an agent whose entry in the result map is a Success, and when the
\* runner has finished the number of agent_complete events is the success
\* count the summary event shows.
C35_CompleteMeansSuccess ==
    (FanOut /\ pc # "run_multiple_agents") =>
        /\ \A k \in 1..Len(message_queue) :
            (/\ message_queue[k].event = "agent_complete"
             /\ \A j \in (k + 1)..Len(message_queue) :
                    message_queue[j] # message_queue[k]) =>
                /\ message_queue[k].agent \in DOMAIN RunnerMap
                /\ ~RunnerMap[message_queue[k].agent].isError
        /\ PastAgents =>
            \A k \in 1..Len(message_queue) :
                IsSummary(message_queue[k]) =>
                    message_queue[k].info[1] = CountOf("agent_complete")

WorkerOver == pc \in {"worker_finally", "worker_done"}

ResultsAndComplete == <<"meta", "agent_result", "final_response", "complete">>

\* what C36 says next to the number of admitted events: the event is
\* admitted when result_container has been written and no pipeline event
\* follows it in the queue, and a stream whose loop ended with
\* processing_complete finds the result and sends the final results
C36_AfterResult ==
    /\ hist.terminalAdmitted > 0 =>
        /\ WorkerOver
        /\ result_container.result \/ result_container.error
    /\ \A k \in 1..Len(message_queue) :
        message_queue[k].event \in {"processing_complete", "processing_error"}
            => \A j \in (k + 1)..Len(message_queue) :
                    message_queue[j] = Event("keep_alive", "")
    /\ consumer.msg = Event("processing_complete", "") =>
        /\ result_container.result
        /\ consumer.sent \in {<<>>, ResultsAndComplete}

\* C36 as stated: when the worker's run is over it has admitted exactly one
\* of processing_complete and processing_error, after the pipeline's events
\* and after result_container was written, and a consumer that received
\* processing_complete goes on to the final results.
C36_ExactlyOneTerminalEvent ==
    /\ WorkerOver => hist.terminalAdmitted = 1
    /\ C36_AfterResult

\* C36, amended: the worker admits at most one of processing_complete and
\* processing_error, and exactly one unless the watchdog has stopped the
\* tracker; the event is admitted after the pipeline's events and after
\* result_container was written, and a consumer that received
\* processing_complete goes on to the final results.
C36_AtMostOneTerminalEvent ==
    /\ hist.terminalAdmitted <= 1
    /\ (WorkerOver /\ consumer.how # "timeout") => hist.terminalAdmitted = 1
    /\ C36_AfterResult

C36_Witness ==
    /\ consumer.pc = "closed"
    /\ consumer.msg = Event("processing_complete", "")
    /\ consumer.sent = ResultsAndComplete
    /\ hist.terminalAdmitted = 1
    /\ pc = "worker_done"

\* the run whose result the tracker did not announce
C36_WitnessDropped ==
    /\ pc = "worker_done"
    /\ result_container.result
    /\ consumer.how = "timeout"
    /\ hist.terminalAdmitted = 0

\* C37: no step puts an event into the queue while the tracker is inactive,
\* and when the consumer has left get_messages the queue is empty.
C37_NoPutAfterStop ==
    /\ [][~is_active => Len(message_queue') <= Len(message_queue)]_vars
    /\ [](consumer.pc # "polling" => message_queue = <<>>)

\* the terminal outcomes a stream has sent: the watchdog's timeout event in
\* the loop, and the results with complete, error, or timeout after it
TerminalOutcomes ==
    (IF consumer.how = "timeout" THEN 1 ELSE 0)
    + (IF consumer.sent = <<>> THEN 0 ELSE 1)

\* C38: a stream sends at most one terminal outcome, the stream that has
\* ended has sent exactly one, and a stream that has sent the watchdog's
\* timeout event does not send the final results and complete.
C38_OneTerminalOutcome ==
    /\ TerminalOutcomes <= 1
    /\ consumer.pc = "closed" => TerminalOutcomes = 1
    /\ consumer.how = "timeout" => consumer.sent # ResultsAndComplete

\* the stream that sent timeout and then the final results and complete
C38_TimeoutThenResults ==
    /\ consumer.pc = "closed"
    /\ consumer.how = "timeout"
    /\ consumer.sent = ResultsAndComplete

====
